---- MODULE Spec2Model ----
(***************************************************************************)
(* Cascade extraction of ic3_labels (labels/utils/cascade.py).             *)
(*                                                                         *)
(* The state is one frame: its I3MCTree (read by every function), the call *)
(* in progress, the value it returned or the error it raised, and the      *)
(* queries it made to the geometry module, and the entries it made into    *)
(* get_extension_from_vertex.  Each function of cascade.py is              *)
(* one action; get_extension_from_vertex is a recursive operator.  The     *)
(* ShowerParameters bound when the module is imported is part of the       *)
(* state: it is fixed for the life of the program, and cascade.py does not *)
(* decide which parametrization it is.                                     *)
(*                                                                         *)
(* Number encoding.  Positions and directions are integer triples.         *)
(* Energies are integers in MeV; an emScale is an integer in thousandths,  *)
(* so energy * em_scale is (energy * scale) \div 1000, exact for the       *)
(* energies used here (multiples of 1000 MeV).  A length is a record       *)
(* [cls, v] with cls one of "num", "nan", "inf".  A magnitude is the exact *)
(* integer square root: it is defined only where the root is an integer,   *)
(* which holds between all the points used here.                           *)
(***************************************************************************)
EXTENDS Integers, Sequences, FiniteSets

VARIABLES mctree, pc, call, result, geometry_calls, finder_calls,
          shower_parameters

vars == <<mctree, pc, call, result, geometry_calls, finder_calls,
          shower_parameters>>

\* Largest number of particles in the I3MCTree of the frame.
MaxNodes == 4

----------------------------------------------------------------------------
\* Values

None == [kind |-> "None"]

AssertionError(msg) == [kind |-> "AssertionError", msg |-> msg]

Value(kind, v) == [kind |-> kind, val |-> v]

Num(v) == [cls |-> "num", v |-> v]

NaN == [cls |-> "nan", v |-> 0]

Inf == [cls |-> "inf", v |-> 0]

\* np.isfinite(x)
isfinite(x) == x.cls = "num"

\* x > 0 for a float x: false for nan, true for +inf
GreaterThanZero(x) == (x.cls = "inf") \/ (x.cls = "num" /\ x.v > 0)

\* I3Position / I3Direction arithmetic
VecAdd(a, b) == <<a[1] + b[1], a[2] + b[2], a[3] + b[3]>>

VecSub(a, b) == <<a[1] - b[1], a[2] - b[2], a[3] - b[3]>>

VecScale(d, k) == <<d[1] * k, d[2] * k, d[3] * k>>

\* I3Position.magnitude: the Euclidean norm (exact integer root)
magnitude(v) ==
    LET s == v[1] * v[1] + v[2] * v[2] + v[3] * v[3]
    IN  CHOOSE r \in 0..s : r * r = s

----------------------------------------------------------------------------
\* Particle types (dataclasses.I3Particle.ParticleType)

NeutrinoTypes == {"NuE", "NuEBar", "NuMu", "NuMuBar", "NuTau", "NuTauBar"}

\* the types whose energy is summed unscaled
MuonTauTypes == {"MuMinus", "MuPlus", "TauMinus", "TauPlus"}

ElectromagneticTypes == {"EMinus", "EPlus", "Gamma", "Brems", "DeltaE", "PairProd", "Pi0"}

HadronTypes == {"Hadrons", "Neutron", "PiPlus", "PiMinus", "K0_Long", "KPlus",
                "KMinus", "PPlus", "PMinus", "K0_Short", "NuclInt"}

\* I3Particle.is_neutrino
is_neutrino(p) == p.type \in NeutrinoTypes

----------------------------------------------------------------------------
\* The particles a tree is built from.  The positions lie on the points
\* (-3,0,0), (0,0,0), (3,0,0), (0,4,0), whose mutual distances are integers.

NuMu5 ==
    [type |-> "NuMu", location_type |-> "InIce", shape |-> "Primary",
     energy |-> 5000, time |-> 0,
     pos |-> <<0, 0, 0>>, dir |-> <<0, 1, 0>>, length |-> Num(4)]

MuMinus10 ==
    [type |-> "MuMinus", location_type |-> "InIce", shape |-> "StartingTrack",
     energy |-> 10000, time |-> 1,
     pos |-> <<-3, 0, 0>>, dir |-> <<1, 0, 0>>, length |-> Num(6)]

EMinus3 ==
    [type |-> "EMinus", location_type |-> "InIce", shape |-> "Null",
     energy |-> 3000, time |-> 2,
     pos |-> <<0, 0, 0>>, dir |-> <<0, 0, 1>>, length |-> NaN]

Hadrons100 ==
    [type |-> "Hadrons", location_type |-> "InIce", shape |-> "Dark",
     energy |-> 100000, time |-> 3,
     pos |-> <<0, 0, 0>>, dir |-> <<-1, 0, 0>>, length |-> Num(3)]

TauMinus7 ==
    [type |-> "TauMinus", location_type |-> "IceTop", shape |-> "Null",
     energy |-> 7000, time |-> 4,
     pos |-> <<3, 0, 0>>, dir |-> <<0, 0, -1>>, length |-> Num(-1)]

Pool == {NuMu5, MuMinus10, EMinus3, Hadrons100, TauMinus7}

\* The particles a tree can have as its primary
PrimaryPool == {NuMu5, MuMinus10}

\* Reference vertices handed to get_extension_from_vertex
Vertices == {<<0, 0, 0>>, <<0, 4, 0>>}

\* Convex hulls handed to the functions: axis-parallel boxes, one around
\* (0,0,0) and one around (3,0,0)
Hulls ==
    {[min |-> <<-1, -1, -1>>, max |-> <<1, 1, 1>>],
     [min |-> <<2, -1, -1>>, max |-> <<4, 1, 1>>]}

\* Values of extend_boundary handed to get_cascade_of_primary_nu
ExtendBoundaries == {0, 1}

\* Energies at which ShowerParameters is looked up
Energies == {3000, 4000, 100000}

----------------------------------------------------------------------------
\* I3MCTree: particles[i] is the particle with identity i, parent[i] its
\* parent (0 for the primary); daughters are ordered by identity.

Nodes(tree) == 1..Len(tree.particles)

RECURSIVE AncestorsOrSelf(_, _)
AncestorsOrSelf(parent, i) ==
    IF i = 0 THEN {} ELSE {i} \cup AncestorsOrSelf(parent, parent[i])

\* The parent maps of the trees with n particles.  Identities follow the
\* order in which I3MCTree stores and iterates its particles (depth first,
\* parent before daughters): particle 1 is the primary, and particle i > 1
\* hangs below particle i - 1 or one of its ancestors.
ParentMaps(n) ==
    { f \in [1..n -> 0..(n - 1)] :
          \A i \in 1..n :
              IF i = 1 THEN f[i] = 0
              ELSE f[i] >= 1 /\ f[i] < i /\ \A j \in 2..i :
                       f[j] \in AncestorsOrSelf(f, j - 1) }

\* tree.get_daughters(particle)
get_daughters(tree, particle) ==
    SelectSeq([i \in 1..Len(tree.particles) |-> i],
              LAMBDA i : tree.parent[i] = particle)

----------------------------------------------------------------------------
\* get_extension_from_vertex

\* The end point of a particle (lines 109-112)
particle_end_pos(p) ==
    IF isfinite(p.length) /\ GreaterThanZero(p.length)
    THEN VecAdd(p.pos, VecScale(p.dir, p.length.v))
    ELSE p.pos

\* initial_max with the flag ignored: the own end point always competes
initial_max_always_own(p, vertex, consider_particle_length) ==
    [max_distance  |-> magnitude(VecSub(vertex, particle_end_pos(p))),
     max_extension |-> Value("I3Position", particle_end_pos(p))]

\* max_distance and max_extension before the loop (lines 108-118)
initial_max(p, vertex, consider_particle_length) ==
    IF consider_particle_length
    THEN [max_distance  |-> magnitude(VecSub(vertex, particle_end_pos(p))),
          max_extension |-> Value("I3Position", particle_end_pos(p))]
    ELSE [max_distance |-> 0, max_extension |-> None]

\* update_max with > in place of >= once there is a candidate: the first
\* of the farthest wins
update_max_strict(acc, vertex, extension) ==
    LET dist == magnitude(VecSub(vertex, extension.val))
    IN  IF dist > acc.max_distance \/ acc.max_extension = None
        THEN [max_distance |-> dist, max_extension |-> extension]
        ELSE acc

\* One pass of the loop body after the recursive call (lines 123-128)
update_max(acc, vertex, extension) ==
    LET dist == magnitude(VecSub(vertex, extension.val))
    IN  IF dist >= acc.max_distance
        THEN [max_distance |-> dist, max_extension |-> extension]
        ELSE acc

RECURSIVE get_extension_from_vertex(_, _, _, _)
RECURSIVE extension_loop(_, _, _, _)

\* The loop over the daughters (lines 120-128); the recursive call takes
\* the default consider_particle_length=True
extension_loop(tree, daughters, vertex, acc) ==
    IF daughters = <<>>
    THEN acc
    ELSE extension_loop(tree, Tail(daughters), vertex,
             update_max(acc, vertex,
                 get_extension_from_vertex(tree, Head(daughters), vertex, TRUE)))

get_extension_from_vertex(tree, particle, vertex, consider_particle_length) ==
    extension_loop(tree, get_daughters(tree, particle), vertex,
        initial_max(tree.particles[particle], vertex,
                    consider_particle_length)).max_extension

RECURSIVE extension_calls(_, _, _, _)
RECURSIVE extension_calls_of_all(_, _, _)

\* The entries into get_extension_from_vertex that one call of it makes, in
\* the order they are made: the call itself, at recursion depth `depth`,
\* then (line 121) those of the call on each daughter, one level deeper and
\* with the default consider_particle_length=True
extension_calls(tree, particle, consider_particle_length, depth) ==
    <<[particle |-> particle,
       consider_particle_length |-> consider_particle_length,
       depth |-> depth]>>
        \o extension_calls_of_all(tree, get_daughters(tree, particle), depth + 1)

\* extension_calls_of_all that does not descend below the daughters
extension_calls_flat(tree, daughters, depth) ==
    [k \in 1..Len(daughters) |->
        [particle |-> daughters[k], consider_particle_length |-> TRUE,
         depth |-> depth]]

\* The loop over the daughters (lines 120-121)
extension_calls_of_all(tree, daughters, depth) ==
    IF daughters = <<>>
    THEN <<>>
    ELSE extension_calls(tree, Head(daughters), TRUE, depth)
             \o extension_calls_of_all(tree, Tail(daughters), depth)

----------------------------------------------------------------------------
\* get_interaction_extension_length, get_interaction_extension_pos

first_daughter(tree, daughters) == tree.particles[daughters[1]]

\* length_finder_calls without the assertion before the call
length_finder_calls_unguarded(tree, primary) ==
    extension_calls(tree, primary, FALSE, 1)

\* The entries into get_extension_from_vertex made by
\* get_interaction_extension_length: none when the assertion of line 43
\* fails, else those of the call of lines 47-48
length_finder_calls(tree, primary) ==
    IF ~(Len(get_daughters(tree, primary)) > 0)
    THEN <<>>
    ELSE extension_calls(tree, primary, FALSE, 1)

\* The entries into get_extension_from_vertex made by
\* get_interaction_extension_pos: none when the assertion of line 72 fails,
\* else those of the call of lines 76-77
pos_finder_calls(tree, primary) ==
    IF ~(Len(get_daughters(tree, primary)) >= 2)
    THEN <<>>
    ELSE extension_calls(tree, primary, FALSE, 1)

\* get_interaction_extension_length with consider_particle_length=True
get_interaction_extension_length_with_own(tree, primary) ==
    LET daughters == get_daughters(tree, primary)
        vertex    == first_daughter(tree, daughters).pos
        extension == get_extension_from_vertex(tree, primary, vertex, TRUE)
    IN  IF ~(Len(daughters) > 0)
        THEN AssertionError("Expected at least 1 daughter")
        ELSE Value("float", magnitude(VecSub(vertex, extension.val)))

get_interaction_extension_length(tree, primary) ==
    LET daughters == get_daughters(tree, primary)
        vertex    == first_daughter(tree, daughters).pos
        extension == get_extension_from_vertex(tree, primary, vertex, FALSE)
    IN  IF ~(Len(daughters) > 0)
        THEN AssertionError("Expected at least 1 daughter")
        ELSE Value("float", magnitude(VecSub(vertex, extension.val)))

get_interaction_extension_pos(tree, primary) ==
    LET daughters == get_daughters(tree, primary)
        vertex    == first_daughter(tree, daughters).pos
    IN  IF ~(Len(daughters) >= 2)
        THEN AssertionError("Expected at least 2 daughters")
        ELSE get_extension_from_vertex(tree, primary, vertex, FALSE)

----------------------------------------------------------------------------
\* The collaborators of cascade.py that live in other modules

\* The types ShowerParameters has a parametrization for
ShowerTypes == ElectromagneticTypes \cup HadronTypes

\* The (type, energy) pairs at which ShowerParameters is looked up
ShowerKeys == {"EMinus", "Hadrons"} \X Energies

\* The scale factors a parametrization can give, in thousandths
Scales == {649, 740, 1000}

\* The parametrizations the import at the top of the module can bind: the
\* module takes ShowerParameters from one of two libraries and fixes nothing
\* about it but the signature (type, energy) -> emScale.
ShowerModels == [ShowerKeys -> Scales]

\* One of these parametrizations: 1 for an electromagnetic shower, below 1
\* for a hadronic one
ReferenceShowerParameters ==
    [k \in ShowerKeys |->
        IF k[1] \in ElectromagneticTypes THEN 1000
        ELSE IF k[2] <= 10000 THEN 649
        ELSE 740]

\* ShowerParameters(type, energy).emScale, in thousandths (line 147)
emScale(type, energy) == shower_parameters[<<type, energy>>]

\* geometry.point_is_inside(convex_hull, point)
point_is_inside(convex_hull, point) ==
    \A k \in 1..3 : convex_hull.min[k] <= point[k] /\ point[k] <= convex_hull.max[k]

\* Half the width of the detector, the box the detector bounds are modelled by
DetectorHalfWidth == 2

\* geometry.is_in_detector_bounds(pos, extend_boundary)
is_in_detector_bounds(pos, extend_boundary) ==
    \A k \in 1..3 : /\ -(DetectorHalfWidth + extend_boundary) <= pos[k]
                    /\ pos[k] <= DetectorHalfWidth + extend_boundary

\* neutrino.get_interaction_neutrino(frame, primary, ...): what it may
\* return, no particle (0) or a particle of the tree
NoParticle == 0

get_interaction_neutrino(tree, primary) == {NoParticle} \cup Nodes(tree)

\* The queries a call makes to the geometry module, as it makes them
PointIsInsideQuery(convex_hull, point) ==
    [fn |-> "point_is_inside", convex_hull |-> convex_hull, point |-> point]

DetectorBoundsQuery(pos, extend_boundary) ==
    [fn |-> "is_in_detector_bounds", pos |-> pos,
     extend_boundary |-> extend_boundary]

----------------------------------------------------------------------------
\* get_cascade_em_equivalent, get_cascade_energy_deposited

\* get_cascade_em_equivalent without the scale factor
get_cascade_em_equivalent_unscaled(cascade) == cascade.energy

\* get_cascade_em_equivalent dividing by the scale factor
get_cascade_em_equivalent_divided(cascade) ==
    (cascade.energy * 1000) \div emScale(cascade.type, cascade.energy)

get_cascade_em_equivalent(cascade) ==
    (cascade.energy * emScale(cascade.type, cascade.energy)) \div 1000

\* get_cascade_energy_deposited without the containment test
get_cascade_energy_deposited_anywhere(convex_hull, cascade) ==
    get_cascade_em_equivalent(cascade)

get_cascade_energy_deposited(convex_hull, cascade) ==
    IF point_is_inside(convex_hull, cascade.pos)
    THEN get_cascade_em_equivalent(cascade)
    ELSE 0

----------------------------------------------------------------------------
\* get_cascade_of_primary_nu

\* daughter_energy without the skip of neutrinos
daughter_energy_with_neutrinos(d) ==
    IF d.location_type # "InIce" THEN 0
    ELSE IF d.type \in MuonTauTypes \cup NeutrinoTypes THEN d.energy
    ELSE get_cascade_em_equivalent(d)

\* What one daughter adds to deposited_energy (lines 278-300)
daughter_energy(d) ==
    IF is_neutrino(d) THEN 0
    ELSE IF d.location_type # "InIce" THEN 0
    ELSE IF d.type \in MuonTauTypes THEN d.energy
    ELSE get_cascade_em_equivalent(d)

RECURSIVE deposited_energy(_, _)
\* The loop over the daughters (lines 269-300)
deposited_energy(tree, daughters) ==
    IF daughters = <<>>
    THEN 0
    ELSE daughter_energy(tree.particles[Head(daughters)])
             + deposited_energy(tree, Tail(daughters))

\* no_interaction_neutrino without the is_neutrino test
no_interaction_neutrino_none_only(tree, neutrino) == neutrino = NoParticle

\* no_interaction_neutrino that also gives up on a neutrino without daughters
no_interaction_neutrino_or_no_daughters(tree, neutrino) ==
    \/ neutrino = NoParticle
    \/ ~is_neutrino(tree.particles[neutrino])
    \/ get_daughters(tree, neutrino) = <<>>

\* The early return (lines 231-232)
no_interaction_neutrino(tree, neutrino) ==
    neutrino = NoParticle \/ ~is_neutrino(tree.particles[neutrino])

\* containment_query that never uses the convex hull
containment_query_detector_only(convex_hull, extend_boundary, pos) ==
    DetectorBoundsQuery(pos, extend_boundary)

\* The containment query (lines 245-252)
containment_query(convex_hull, extend_boundary, pos) ==
    IF convex_hull = None
    THEN DetectorBoundsQuery(pos, extend_boundary)
    ELSE PointIsInsideQuery(convex_hull, pos)

\* The geometry module's answer to a query
answer(query) ==
    IF query.fn = "is_in_detector_bounds"
    THEN is_in_detector_bounds(query.pos, query.extend_boundary)
    ELSE point_is_inside(query.convex_hull, query.point)

\* cascade_dir that keeps the direction of the copied neutrino
cascade_dir_of_neutrino(primary, neutrino) == neutrino.dir

\* The direction given to the cascade (line 261)
cascade_dir(primary, neutrino) == primary.dir

\* The cascade (lines 258-303)
build_cascade(tree, primary, neutrino, daughters) ==
    [tree.particles[neutrino] EXCEPT
        !.shape  = "Cascade",
        !.dir    = cascade_dir(tree.particles[primary], tree.particles[neutrino]),
        !.pos    = first_daughter(tree, daughters).pos,
        !.time   = first_daughter(tree, daughters).time,
        !.length = Num(get_interaction_extension_length(tree, neutrino).val),
        !.energy = deposited_energy(tree, daughters)]

\* tree_after_cascade when the cascade is the neutrino of the tree itself
\* instead of a copy of it
tree_after_cascade_in_place(tree, neutrino, cascade) ==
    [tree EXCEPT !.particles[neutrino] = cascade]

\* The tree once the cascade is built: line 259 makes a new I3Particle from
\* the neutrino, and lines 260-302 assign to that particle only
tree_after_cascade(tree, neutrino, cascade) == tree

\* The outcome of get_cascade_of_primary_nu when get_interaction_neutrino
\* returned `neutrino`: the value returned or the error raised, the
\* geometry queries and the entries into get_extension_from_vertex made on
\* the way, and the tree it leaves.
get_cascade_of_primary_nu(tree, primary, convex_hull, extend_boundary, neutrino) ==
    LET daughters == get_daughters(tree, neutrino)
        query     == containment_query(convex_hull, extend_boundary,
                                       first_daughter(tree, daughters).pos)
    IN  IF no_interaction_neutrino(tree, neutrino)
        THEN [result |-> None, geometry_calls |-> <<>>, finder_calls |-> <<>>,
              mctree |-> tree]
        ELSE IF ~(Len(daughters) > 0)
        THEN [result |-> AssertionError("Expected at least one daughter!"),
              geometry_calls |-> <<>>, finder_calls |-> <<>>, mctree |-> tree]
        ELSE IF ~answer(query)
        THEN [result |-> AssertionError("Expected interaction to be inside defined volume!"),
              geometry_calls |-> <<query>>, finder_calls |-> <<>>,
              mctree |-> tree]
        ELSE [result |-> Value("I3Particle",
                                build_cascade(tree, primary, neutrino, daughters)),
              geometry_calls |-> <<query>>,
              finder_calls |-> length_finder_calls(tree, neutrino),
              mctree |-> tree_after_cascade(tree, neutrino,
                             build_cascade(tree, primary, neutrino, daughters))]

----------------------------------------------------------------------------
\* State machine

Idle == [kind |-> "idle"]

Init ==
    /\ \E n \in 1..MaxNodes :
         \E ps \in [1..n -> Pool], pa \in ParentMaps(n) :
            /\ ps[1] \in PrimaryPool
            /\ mctree = [particles |-> ps, parent |-> pa]
    /\ pc = "idle"
    /\ call = Idle
    /\ result = Idle
    /\ geometry_calls = <<>>
    /\ finder_calls = <<>>
    /\ shower_parameters = ReferenceShowerParameters

\* A call c made on the frame ends with r, after the geometry queries g and
\* the entries f into get_extension_from_vertex, and leaves the tree t.
Returns(c, r, g, f, t) ==
    /\ pc = "idle"
    /\ pc' = "returned"
    /\ call' = c
    /\ result' = r
    /\ geometry_calls' = g
    /\ finder_calls' = f
    /\ mctree' = t
    /\ UNCHANGED shower_parameters

Call_get_extension_from_vertex ==
    \E particle \in Nodes(mctree), vertex \in Vertices, flag \in BOOLEAN :
        Returns([op |-> "get_extension_from_vertex", particle |-> particle,
                 vertex |-> vertex, consider_particle_length |-> flag],
                get_extension_from_vertex(mctree, particle, vertex, flag),
                <<>>, extension_calls(mctree, particle, flag, 1), mctree)

Call_get_interaction_extension_length ==
    \E primary \in Nodes(mctree) :
        Returns([op |-> "get_interaction_extension_length", primary |-> primary],
                get_interaction_extension_length(mctree, primary),
                <<>>, length_finder_calls(mctree, primary), mctree)

Call_get_interaction_extension_pos ==
    \E primary \in Nodes(mctree) :
        Returns([op |-> "get_interaction_extension_pos", primary |-> primary],
                get_interaction_extension_pos(mctree, primary),
                <<>>, pos_finder_calls(mctree, primary), mctree)

\* The cascade handed in is a particle of the frame's tree of a type
\* ShowerParameters knows.
Call_get_cascade_em_equivalent ==
    \E i \in Nodes(mctree) :
        /\ mctree.particles[i].type \in ShowerTypes
        /\ Returns([op |-> "get_cascade_em_equivalent",
                    cascade |-> mctree.particles[i]],
                   Value("float", get_cascade_em_equivalent(mctree.particles[i])),
                   <<>>, <<>>, mctree)

Call_get_cascade_energy_deposited ==
    \E convex_hull \in Hulls, i \in Nodes(mctree) :
        /\ mctree.particles[i].type \in ShowerTypes
        /\ Returns([op |-> "get_cascade_energy_deposited",
                    convex_hull |-> convex_hull,
                    cascade |-> mctree.particles[i]],
                   Value("float",
                         get_cascade_energy_deposited(convex_hull,
                                                      mctree.particles[i])),
                   <<PointIsInsideQuery(convex_hull, mctree.particles[i].pos)>>,
                   <<>>, mctree)

\* primary is the primary of the tree; convex_hull is None or a hull;
\* neutrino is what get_interaction_neutrino returns.
Call_get_cascade_of_primary_nu ==
    \E primary \in {i \in Nodes(mctree) : mctree.parent[i] = 0},
       volume \in ({None} \X ExtendBoundaries) \cup (Hulls \X {0}) :
        \E neutrino \in get_interaction_neutrino(mctree, primary) :
            LET out == get_cascade_of_primary_nu(mctree, primary, volume[1],
                                                 volume[2], neutrino)
            IN  Returns([op |-> "get_cascade_of_primary_nu",
                         primary |-> primary, convex_hull |-> volume[1],
                         extend_boundary |-> volume[2], neutrino |-> neutrino],
                        out.result, out.geometry_calls, out.finder_calls,
                        out.mctree)

\* The caller takes the result; the frame is ready for the next call.
Return ==
    /\ pc = "returned"
    /\ pc' = "idle"
    /\ call' = Idle
    /\ result' = Idle
    /\ geometry_calls' = <<>>
    /\ finder_calls' = <<>>
    /\ UNCHANGED <<mctree, shower_parameters>>

Next ==
    \/ Call_get_extension_from_vertex
    \/ Call_get_interaction_extension_length
    \/ Call_get_interaction_extension_pos
    \/ Call_get_cascade_em_equivalent
    \/ Call_get_cascade_energy_deposited
    \/ Call_get_cascade_of_primary_nu
    \/ Return

Spec == Init /\ [][Next]_vars

\* get_cascade_em_equivalent on its own: the frame holds one cascade of a
\* shower type at one of the energies, and the import has bound any of the
\* parametrizations.
ShowerCascades ==
    {[EMinus3 EXCEPT !.type = k[1], !.energy = k[2]] : k \in ShowerKeys}

InitShower ==
    /\ shower_parameters \in ShowerModels
    /\ \E c \in ShowerCascades :
           mctree = [particles |-> <<c>>, parent |-> <<0>>]
    /\ pc = "idle"
    /\ call = Idle
    /\ result = Idle
    /\ geometry_calls = <<>>
    /\ finder_calls = <<>>

NextShower ==
    \/ Call_get_cascade_em_equivalent
    \/ Return

SpecShower == InitShower /\ [][NextShower]_vars

----------------------------------------------------------------------------
\* Notions the properties are stated with

\* The end point of a particle: pos + dir * length when the length is
\* finite and positive, pos otherwise
Endpoint(p) ==
    IF p.length.cls = "num" /\ p.length.v > 0
    THEN <<p.pos[1] + p.dir[1] * p.length.v,
           p.pos[2] + p.dir[2] * p.length.v,
           p.pos[3] + p.dir[3] * p.length.v>>
    ELSE p.pos

\* The distance of the end point of particle i to the vertex
EndDistance(tree, i, vertex) ==
    magnitude(VecSub(vertex, Endpoint(tree.particles[i])))

RECURSIVE PreOrder(_, _)
RECURSIVE PreOrderOfAll(_, _)

\* The particles below p, p first, depth first, daughters in stored order
PreOrder(tree, p) == <<p>> \o PreOrderOfAll(tree, get_daughters(tree, p))

PreOrderOfAll(tree, ds) ==
    IF ds = <<>> THEN <<>>
    ELSE PreOrder(tree, Head(ds)) \o PreOrderOfAll(tree, Tail(ds))

\* The transitive descendants of p, in depth-first pre-order
Descendants(tree, p) == Tail(PreOrder(tree, p))

\* The largest distance of an end point of the candidates to the vertex
MaxDistance(tree, candidates, vertex) ==
    CHOOSE m \in {EndDistance(tree, candidates[k], vertex) : k \in DOMAIN candidates} :
        \A k \in DOMAIN candidates : EndDistance(tree, candidates[k], vertex) <= m

\* The end point of the last candidate whose end point is farthest from
\* the vertex
LastFarthest(tree, candidates, vertex) ==
    LET m == MaxDistance(tree, candidates, vertex)
        k == CHOOSE k \in DOMAIN candidates :
                 /\ EndDistance(tree, candidates[k], vertex) = m
                 /\ \A j \in DOMAIN candidates :
                        j > k => EndDistance(tree, candidates[j], vertex) < m
    IN  Endpoint(tree.particles[candidates[k]])

\* The call in progress is get_cascade_of_primary_nu and the helper
\* returned a neutrino
LocatedNeutrino ==
    /\ pc = "returned"
    /\ call.op = "get_cascade_of_primary_nu"
    /\ call.neutrino # NoParticle
    /\ mctree.particles[call.neutrino].type \in NeutrinoTypes

\* The daughters of the particle the helper returned
CallDaughters == get_daughters(mctree, call.neutrino)

\* The first daughter of the located neutrino lies in the volume of the call
FirstDaughterInside ==
    LET pos == mctree.particles[CallDaughters[1]].pos
    IN  IF call.convex_hull = None
        THEN is_in_detector_bounds(pos, call.extend_boundary)
        ELSE point_is_inside(call.convex_hull, pos)

\* get_cascade_of_primary_nu returned a cascade
CascadeReturned ==
    /\ pc = "returned"
    /\ call.op = "get_cascade_of_primary_nu"
    /\ result.kind = "I3Particle"

----------------------------------------------------------------------------
\* C1: for a located neutrino with at least one daughter whose first
\* daughter is inside the volume, get_cascade_of_primary_nu returns a
\* cascade whose energy is the sum over the neutrino's direct daughters of:
\* nothing for a neutrino, nothing for a daughter that is not InIce, the raw
\* energy for an InIce MuMinus, MuPlus, TauMinus or TauPlus, and
\* energy * em_scale(type, energy) for every other InIce daughter.  For the
\* daughters [muon(10 GeV), neutrino(5 GeV), electron(3 GeV)] it is
\* 10 GeV + em_equivalent(electron, 3 GeV).

VisibleEnergy(d) ==
    IF d.type \in NeutrinoTypes \/ d.location_type # "InIce" THEN 0
    ELSE IF d.type \in {"MuMinus", "MuPlus", "TauMinus", "TauPlus"} THEN d.energy
    ELSE (d.energy * emScale(d.type, d.energy)) \div 1000

RECURSIVE SumVisibleEnergy(_, _)
SumVisibleEnergy(tree, S) ==
    IF S = {} THEN 0
    ELSE LET i == CHOOSE i \in S : TRUE
         IN  VisibleEnergy(tree.particles[i]) + SumVisibleEnergy(tree, S \ {i})

MuonNeutrinoElectron ==
    /\ Len(CallDaughters) = 3
    /\ mctree.particles[CallDaughters[1]] = MuMinus10
    /\ mctree.particles[CallDaughters[2]] = NuMu5
    /\ mctree.particles[CallDaughters[3]] = EMinus3

C1_CascadeEnergy ==
    (LocatedNeutrino /\ CallDaughters # <<>> /\ FirstDaughterInside) =>
        /\ result.kind = "I3Particle"
        /\ result.val.energy =
               SumVisibleEnergy(mctree, {i \in Nodes(mctree) :
                                            mctree.parent[i] = call.neutrino})
        /\ MuonNeutrinoElectron =>
               result.val.energy = 10000 + get_cascade_em_equivalent(EMinus3)

C1_Witness ==
    /\ LocatedNeutrino
    /\ MuonNeutrinoElectron
    /\ result.kind = "I3Particle"
    /\ result.val.energy = 13000

----------------------------------------------------------------------------
\* C2: with consider_particle_length=True, get_extension_from_vertex
\* returns the end point, among the particle's own and those of all its
\* transitive descendants, that is farthest from the vertex; of several at
\* the largest distance it returns the one visited last in depth-first
\* pre-order (particle first, then daughters in their stored order).

C2_FarthestLastInPreOrder ==
    (/\ pc = "returned"
     /\ call.op = "get_extension_from_vertex"
     /\ call.consider_particle_length) =>
        result = Value("I3Position",
                       LastFarthest(mctree, PreOrder(mctree, call.particle),
                                    call.vertex))

C2_Witness ==
    /\ pc = "returned"
    /\ call.op = "get_extension_from_vertex"
    /\ call.consider_particle_length
    /\ LET seq == PreOrder(mctree, call.particle)
           m   == MaxDistance(mctree, seq, call.vertex)
       IN  \E j, k \in DOMAIN seq :
               /\ j < k
               /\ EndDistance(mctree, seq[j], call.vertex) = m
               /\ EndDistance(mctree, seq[k], call.vertex) = m
               /\ Endpoint(mctree.particles[seq[j]]) # Endpoint(mctree.particles[seq[k]])
               /\ mctree.parent[seq[k]] # call.particle
               /\ result.val = Endpoint(mctree.particles[seq[k]])

----------------------------------------------------------------------------
\* C3: get_cascade_of_primary_nu returns None, and raises nothing, whenever
\* the helper returns no particle or a particle that is not a neutrino,
\* whether or not that particle has daughters and wherever they lie.

C3_NoneWithoutNeutrino ==
    (/\ pc = "returned"
     /\ call.op = "get_cascade_of_primary_nu"
     /\ \/ call.neutrino = NoParticle
        \/ mctree.particles[call.neutrino].type \notin NeutrinoTypes) =>
        result = None

C3_Witness ==
    /\ pc = "returned"
    /\ call.op = "get_cascade_of_primary_nu"
    /\ call.neutrino # NoParticle
    /\ mctree.particles[call.neutrino].type \notin NeutrinoTypes
    /\ CallDaughters = <<>>
    /\ result = None

----------------------------------------------------------------------------
\* C4: a cascade returned by get_cascade_of_primary_nu has the direction of
\* the primary (not the located neutrino's own), the type of the located
\* neutrino, shape Cascade, and the position and time of the first daughter.

C4_CascadeFields ==
    CascadeReturned =>
        /\ result.val.dir = mctree.particles[call.primary].dir
        /\ result.val.type = mctree.particles[call.neutrino].type
        /\ result.val.shape = "Cascade"
        /\ result.val.pos = mctree.particles[CallDaughters[1]].pos
        /\ result.val.time = mctree.particles[CallDaughters[1]].time

C4_Witness ==
    /\ CascadeReturned
    /\ mctree.particles[call.primary].dir # mctree.particles[call.neutrino].dir
    /\ result.val.dir = mctree.particles[call.primary].dir
    /\ mctree.particles[CallDaughters[1]].time # mctree.particles[call.neutrino].time
    /\ mctree.particles[CallDaughters[1]].pos # mctree.particles[call.neutrino].pos

----------------------------------------------------------------------------
\* C5: a cascade returned by get_cascade_of_primary_nu has as length the
\* distance between the first daughter's position and the farthest end
\* point among the transitive descendants of the located neutrino; the
\* neutrino's own end point does not enter the maximum.

C5_CascadeLength ==
    CascadeReturned =>
        LET vertex == mctree.particles[CallDaughters[1]].pos
        IN  /\ result.val.length =
                   Num(MaxDistance(mctree, Descendants(mctree, call.neutrino), vertex))
            /\ get_interaction_extension_length(mctree, call.neutrino) =
                   Value("float", result.val.length.v)

C5_Witness ==
    /\ CascadeReturned
    /\ Len(Descendants(mctree, call.neutrino)) > Len(CallDaughters)
    /\ LET vertex == mctree.particles[CallDaughters[1]].pos
       IN  /\ result.val.length.v > 0
           /\ EndDistance(mctree, call.neutrino, vertex) > result.val.length.v

----------------------------------------------------------------------------
\* C6: get_cascade_energy_deposited returns 0 for a cascade whose position
\* the point-in-hull test reports outside, and the full EM equivalent
\* energy, energy * em_scale(type, energy), for one reported inside.

C6_AllOrNothing ==
    (pc = "returned" /\ call.op = "get_cascade_energy_deposited") =>
        /\ geometry_calls = <<PointIsInsideQuery(call.convex_hull, call.cascade.pos)>>
        /\ result.val =
               IF point_is_inside(call.convex_hull, call.cascade.pos)
               THEN (call.cascade.energy
                        * emScale(call.cascade.type, call.cascade.energy)) \div 1000
               ELSE 0

C6_Witness ==
    /\ pc = "returned"
    /\ call.op = "get_cascade_energy_deposited"
    /\ ~point_is_inside(call.convex_hull, call.cascade.pos)
    /\ call.cascade.energy > 0
    /\ result.val = 0

----------------------------------------------------------------------------
\* C7: when the helper returns a neutrino without daughters,
\* get_cascade_of_primary_nu fails with an assertion error, before any
\* containment test and without building a cascade.

C7_AssertsDaughters ==
    (LocatedNeutrino /\ CallDaughters = <<>>) =>
        /\ result = AssertionError("Expected at least one daughter!")
        /\ geometry_calls = <<>>

C7_Witness ==
    /\ LocatedNeutrino
    /\ CallDaughters = <<>>
    /\ result.kind = "AssertionError"

----------------------------------------------------------------------------
\* C8: when the helper returns a neutrino with at least one daughter,
\* get_cascade_of_primary_nu tests the first daughter's position, and only
\* that position, against the convex hull if one is given and otherwise
\* against the detector bounds extended by extend_boundary; if the test
\* reports outside, the call fails with an assertion error and returns no
\* cascade.

C8_ContainmentTest ==
    (LocatedNeutrino /\ CallDaughters # <<>>) =>
        LET pos == mctree.particles[CallDaughters[1]].pos
        IN  /\ geometry_calls =
                   << IF call.convex_hull = None
                      THEN DetectorBoundsQuery(pos, call.extend_boundary)
                      ELSE PointIsInsideQuery(call.convex_hull, pos) >>
            /\ ~FirstDaughterInside =>
                   result = AssertionError(
                       "Expected interaction to be inside defined volume!")
            /\ FirstDaughterInside => result.kind = "I3Particle"

C8_Witness ==
    /\ LocatedNeutrino
    /\ Len(CallDaughters) >= 2
    /\ call.convex_hull # None
    /\ ~point_is_inside(call.convex_hull, mctree.particles[CallDaughters[1]].pos)
    /\ point_is_inside(call.convex_hull, mctree.particles[CallDaughters[2]].pos)
    /\ is_in_detector_bounds(mctree.particles[CallDaughters[1]].pos,
                             call.extend_boundary)
    /\ result.kind = "AssertionError"

----------------------------------------------------------------------------
\* C9 as stated: get_cascade_em_equivalent returns energy times the scale
\* factor for (type, energy); for a fixed type the result does not decrease
\* as the energy grows, and it is the energy when the scale factor is 1.

EmEquivalentAt(cascade, energy) ==
    get_cascade_em_equivalent([cascade EXCEPT !.energy = energy])

----------------------------------------------------------------------------
\* C10: with consider_particle_length=False the particle's own end point
\* does not compete: the result is None exactly when the particle has no
\* daughters, and otherwise it is the end point of a descendant (the last
\* of the farthest ones in pre-order; the daughter's for a single childless
\* daughter), even when the particle's own end point is strictly farther
\* and even when every descendant end point is at distance 0.  The end
\* points of all descendants compete.

C10_ExcludesOwnEndpoint ==
    (/\ pc = "returned"
     /\ call.op = "get_extension_from_vertex"
     /\ ~call.consider_particle_length) =>
        LET below == Descendants(mctree, call.particle)
        IN  /\ result = None <=> get_daughters(mctree, call.particle) = <<>>
            /\ below # <<>> =>
                   result = Value("I3Position",
                                  LastFarthest(mctree, below, call.vertex))
            /\ Len(below) = 1 =>
                   result = Value("I3Position",
                                  Endpoint(mctree.particles[below[1]]))

C10_Witness ==
    /\ pc = "returned"
    /\ call.op = "get_extension_from_vertex"
    /\ ~call.consider_particle_length
    /\ LET below == Descendants(mctree, call.particle)
       IN  /\ Len(below) >= 2
           /\ \A k \in DOMAIN below : EndDistance(mctree, below[k], call.vertex) = 0
           /\ EndDistance(mctree, call.particle, call.vertex) > 0
           /\ result.kind = "I3Position"
           /\ result.val # Endpoint(mctree.particles[call.particle])

----------------------------------------------------------------------------
\* C11: get_interaction_extension_length, get_interaction_extension_pos and
\* get_cascade_of_primary_nu never enter get_extension_from_vertex with
\* consider_particle_length=False on a particle without daughters: each
\* asserts the daughters before the call.  So no length is computed from
\* None, and every returned cascade has a finite length >= 0.

ModuleCallers ==
    {"get_interaction_extension_length", "get_interaction_extension_pos",
     "get_cascade_of_primary_nu"}

C11_NoExcludeSelfOnLeaf ==
    (pc = "returned" /\ call.op \in ModuleCallers) =>
        /\ \A k \in DOMAIN finder_calls :
               ~finder_calls[k].consider_particle_length =>
                   /\ k = 1
                   /\ get_daughters(mctree, finder_calls[k].particle) # <<>>
        /\ result.kind = "AssertionError" => finder_calls = <<>>
        /\ call.op = "get_interaction_extension_length" =>
               /\ result.kind \in {"float", "AssertionError"}
               /\ result.kind = "float" => result.val >= 0
               /\ result.kind = "AssertionError" <=>
                      get_daughters(mctree, call.primary) = <<>>
        /\ call.op = "get_interaction_extension_pos" =>
               /\ result.kind \in {"I3Position", "AssertionError"}
               /\ result.kind = "AssertionError" <=>
                      Len(get_daughters(mctree, call.primary)) < 2
        /\ (call.op = "get_cascade_of_primary_nu" /\ result.kind = "I3Particle") =>
               /\ result.val.length.cls = "num"
               /\ result.val.length.v >= 0
               /\ finder_calls # <<>>
               /\ finder_calls[1].particle = call.neutrino
               /\ ~finder_calls[1].consider_particle_length

C11_Witness ==
    /\ pc = "returned"
    /\ call.op = "get_interaction_extension_length"
    /\ get_daughters(mctree, call.primary) = <<>>
    /\ result = AssertionError("Expected at least 1 daughter")
    /\ finder_calls = <<>>

----------------------------------------------------------------------------
\* C12: no function of the module changes the particle tree, whether it
\* returns a value, returns None or fails: the particles and the daughter
\* relation are as before the call.  A returned cascade is a new particle:
\* the tree gets no new particle and no new daughter, and the located
\* neutrino and the primary keep their fields.

C12_TreeUnchanged ==
    [][ /\ mctree' = mctree
        /\ (pc' = "returned" /\ call'.op = "get_cascade_of_primary_nu"
                /\ result'.kind = "I3Particle") =>
               /\ Len(mctree'.particles) = Len(mctree.particles)
               /\ mctree'.parent = mctree.parent
               /\ mctree'.particles[call'.neutrino] = mctree.particles[call'.neutrino]
               /\ mctree'.particles[call'.primary] = mctree.particles[call'.primary]
      ]_vars

C12_Witness ==
    /\ CascadeReturned
    /\ call.neutrino # call.primary
    /\ mctree.particles[call.neutrino] = NuMu5
    /\ result.val.shape # NuMu5.shape
    /\ result.val.dir # NuMu5.dir
    /\ result.val.pos # NuMu5.pos
    /\ result.val.time # NuMu5.time
    /\ result.val.length # NuMu5.length
    /\ result.val.energy # NuMu5.energy

----------------------------------------------------------------------------
\* C13: get_extension_from_vertex returns after entering itself once for
\* every transitive descendant of the starting particle and for nothing
\* else: the number of recursive calls is the number of descendants, and
\* the recursion is no deeper than the subtree.

\* The particles strictly below p, by the parent relation
Below(tree, p) ==
    {i \in Nodes(tree) : p \in AncestorsOrSelf(tree.parent, tree.parent[i])}

\* The number of generations between p and a particle i below it
Generations(tree, p, i) ==
    Cardinality(AncestorsOrSelf(tree.parent, i) \ AncestorsOrSelf(tree.parent, p))

C13_VisitsEachDescendantOnce ==
    (pc = "returned" /\ call.op = "get_extension_from_vertex") =>
        LET below == Below(mctree, call.particle)
        IN  /\ result # Idle
            /\ finder_calls[1].particle = call.particle
            /\ finder_calls[1].depth = 1
            /\ Len(finder_calls) = 1 + Cardinality(below)
            /\ \A i \in below :
                   Cardinality({k \in 2..Len(finder_calls) :
                                   finder_calls[k].particle = i}) = 1
            /\ \A k \in 2..Len(finder_calls) :
                   /\ finder_calls[k].particle \in below
                   /\ finder_calls[k].depth =
                          1 + Generations(mctree, call.particle,
                                          finder_calls[k].particle)

C13_Witness ==
    /\ pc = "returned"
    /\ call.op = "get_extension_from_vertex"
    /\ Len(finder_calls) = 4
    /\ \E k \in DOMAIN finder_calls : finder_calls[k].depth = 3
    /\ Len(get_daughters(mctree, call.particle)) = 2

====
